---- MODULE Spec2Model ----
(***************************************************************************)
(* A model of fireflies-copy-tools.user.js: the transcript formatter       *)
(* (formatTime, formatTranscript), the fetch path that delivers its result *)
(* to the clipboard, getMeetingNoteIdFromUrl, and the page part: the       *)
(* waits of waitForElement, the button and the MutationObserver.           *)
(*                                                                         *)
(* Strings are sequences of one-character strings, so that two strings are *)
(* equal exactly when their sequences are equal.  A string-valued field    *)
(* that is null or undefined is Null.  An absent captions, speakerMeta or  *)
(* attendees field, or an absent record, is named in the record's          *)
(* "missing" set.                                                          *)
(***************************************************************************)
EXTENDS Integers, Sequences, FiniteSets, TLC

VARIABLES
    meetingNote,                    \* formatTranscript: the record argument
    meetingUrl,                     \* formatTranscript: the URL argument
    pc,                             \* formatTranscript: position in the function
    header,                         \* formatTranscript: let header
    body,                           \* formatTranscript: let body
    lastSpeakerId,                  \* formatTranscript: let lastSpeakerId
    currentSpeakerTextAccumulator,  \* formatTranscript: let currentSpeakerTextAccumulator
    idx,                            \* number of captions the for-of loop has consumed
    result,                         \* formatTranscript: the returned value
    totalSeconds,                   \* formatTime: the argument
    timeText,                       \* formatTime: the returned value
    href,                           \* window.location.href
    authToken,                      \* localStorage.getItem('AUTHORIZATION')
    refreshToken,                   \* localStorage.getItem('REFRESH_TOKEN')
    inflight,                       \* the GM_xmlhttpRequest calls not yet answered
    requests,                       \* number of GM_xmlhttpRequest calls made
    clicks,                         \* number of clicks on the Copy Transcript button
    clipboard,                      \* what GM_setClipboard last wrote
    alerts,                         \* the alert() calls made, in order
    returned,                       \* formatTranscript: the values earlier calls returned
    noteId,                         \* getMeetingNoteIdFromUrl: the returned value
    lastUrl,                        \* let lastUrl of the observer
    currentWaitForButtonContainerTimer, \* the module variable: 0 (null) or a timer id
    timers,                         \* the setInterval timers not yet cleared
    nextTimerId,                    \* the id the next setInterval call returns
    downloadIcon,                   \* the download icon in the page: "none", "bare", "wrapped"
    copyButtons,                    \* number of elements with COPY_BUTTON_ID
    observing                       \* whether observer.observe(body) has run

fmtVars == <<meetingNote, meetingUrl, pc, header, body, lastSpeakerId,
             currentSpeakerTextAccumulator, idx, result>>
timeVars == <<totalSeconds, timeText>>
uiVars == <<href, authToken, refreshToken, inflight, requests, clicks, clipboard, alerts>>
callVars == <<returned>>
urlVars == <<noteId>>
domVars == <<lastUrl, currentWaitForButtonContainerTimer, timers, nextTimerId,
             downloadIcon, copyButtons, observing>>
auxVars == <<callVars, urlVars, domVars>>
vars == <<fmtVars, timeVars, uiVars, auxVars>>

----------------------------------------------------------------------------
(* Bounds of the model *)

MaxCaptions == 3
MaxAttendees == 2
MaxSeconds == 6100
MaxClicks == 2
\* calls of formatTranscript on one record
MaxCalls == 2
\* parts of a /view/ segment, joined by "::"
MaxParts == 3
\* setInterval calls on one page load
MaxTimers == 4

----------------------------------------------------------------------------
(* JavaScript values *)

\* null / undefined for a string-valued field: no string of characters equals it
Null == <<"null">>
\* what the function yields when an exception leaves it
TypeError == <<"TypeError">>
\* let lastSpeakerId = null: a speaker id n is held as <<n>>, null as <<>>
NoSpeaker == <<>>

NL == "\n"
WhiteSpace == {" ", "\n", "\t"}

\* truthiness of a string-or-null value: null, undefined and "" are falsy
Truthy(s) == s # Null /\ s # <<>>

RECURSIVE TrimStart(_)
TrimStart(s) ==
    IF s = <<>> THEN s
    ELSE IF Head(s) \in WhiteSpace THEN TrimStart(Tail(s)) ELSE s

RECURSIVE TrimEnd(_)
TrimEnd(s) ==
    IF s = <<>> THEN s
    ELSE IF s[Len(s)] \in WhiteSpace THEN TrimEnd(SubSeq(s, 1, Len(s) - 1)) ELSE s

\* String.prototype.trim
Trim(s) == TrimEnd(TrimStart(s))

\* the URL kept whole, query string included
BeforeQueryKeepsQuery(s) == s

\* s.split('?')[0]: the characters before the first '?'
RECURSIVE BeforeQuery(_)
BeforeQuery(s) ==
    IF s = <<>> THEN s
    ELSE IF Head(s) = "?" THEN <<>> ELSE <<Head(s)>> \o BeforeQuery(Tail(s))

DigitChar(d) == <<"0", "1", "2", "3", "4", "5", "6", "7", "8", "9">>[d + 1]

\* String(n) / n.toString() of a non-negative integer: its decimal digits
RECURSIVE toString(_)
toString(n) ==
    IF n < 10 THEN <<DigitChar(n)>>
    ELSE toString(n \div 10) \o <<DigitChar(n % 10)>>

\* s.padStart(2, '0')
RECURSIVE PadStart2(_)
PadStart2(s) == IF Len(s) >= 2 THEN s ELSE PadStart2(<<"0">> \o s)

----------------------------------------------------------------------------
(* formatTime *)

\* formatTime with the minutes wrapped into hours
formatTimeWrapsHours(t) ==
    PadStart2(toString((t \div 60) % 60)) \o <<":">> \o PadStart2(toString(t % 60))

formatTime(t) ==
    LET minutes == t \div 60
        seconds == t % 60
    IN  PadStart2(toString(minutes)) \o <<":">> \o PadStart2(toString(seconds))

----------------------------------------------------------------------------
(* formatTranscript *)

Diagnostic ==
    <<"E","r","r","o","r",":"," ","C","o","u","l","d"," ","n","o","t"," ",
      "f","o","r","m","a","t"," ","t","r","a","n","s","c","r","i","p","t"," ",
      "d","u","e"," ","t","o"," ","m","i","s","s","i","n","g"," ",
      "d","a","t","a",".">>

UnknownSpeaker ==
    <<"U","n","k","n","o","w","n"," ","S","p","e","a","k","e","r"," ">>

\* the guard without its !meetingNote test
MissingDataNoNullTest(note) ==
    "captions" \in note.missing \/ "speakerMeta" \in note.missing

\* !meetingNote || !meetingNote.captions || !meetingNote.speakerMeta
MissingData(note) ==
    \/ "meetingNote" \in note.missing
    \/ "captions" \in note.missing
    \/ "speakerMeta" \in note.missing

\* const { captions, speakerMeta, ... } = meetingNote throws on null/undefined
DestructureThrows(note) == "meetingNote" \in note.missing

\* the date put in the header of a record with no title
HeaderTitleDateAlone(note) ==
    IF Truthy(note.title)
    THEN IF Truthy(note.date)
         THEN note.title \o <<" ", "|", " ">> \o note.date
         ELSE note.title
    ELSE IF Truthy(note.date) THEN note.date ELSE <<>>

\* header after the title/date block
HeaderTitle(note) ==
    IF Truthy(note.title)
    THEN IF Truthy(note.date)
         THEN note.title \o <<" ", "|", " ">> \o note.date
         ELSE note.title
    ELSE <<>>

\* header after the meetingUrl block
HeaderUrl(h, url) ==
    IF Truthy(url)
    THEN IF h # <<>> THEN h \o <<NL>> \o BeforeQuery(url) ELSE BeforeQuery(url)
    ELSE h

\* the line with the e-mail address before the name
AttendeeLineEmailFirst(attendee) ==
    LET name == IF Truthy(attendee.displayName) THEN attendee.displayName
                ELSE attendee.name
        email == attendee.email
    IN  IF Truthy(name) /\ Truthy(email) THEN email \o <<" ">> \o name
        ELSE IF Truthy(name) THEN name
        ELSE IF Truthy(email) THEN email
        ELSE Null

\* the attendees.map callback: a line, or Null
AttendeeLine(attendee) ==
    LET name == IF Truthy(attendee.displayName) THEN attendee.displayName
                ELSE attendee.name
        email == attendee.email
    IN  IF Truthy(name) /\ Truthy(email) THEN name \o <<" ">> \o email
        ELSE IF Truthy(name) THEN name
        ELSE IF Truthy(email) THEN email
        ELSE Null

\* .filter(Boolean).join('\n') over the mapped lines
RECURSIVE JoinLines(_)
JoinLines(attendees) ==
    IF attendees = <<>> THEN <<>>
    ELSE LET line == AttendeeLine(Head(attendees))
             rest == JoinLines(Tail(attendees))
             \* whether a later attendee contributes a line
             more == \E k \in 1..Len(Tail(attendees)) :
                        Truthy(AttendeeLine(Tail(attendees)[k]))
         IN  IF ~Truthy(line) THEN rest
             ELSE IF more THEN line \o <<NL>> \o rest
             ELSE line

\* header after the attendees block
HeaderAttendees(h, note) ==
    IF "attendees" \notin note.missing /\ Len(note.attendees) > 0
    THEN LET attendeesList == JoinLines(note.attendees)
         IN  IF attendeesList # <<>>
             THEN IF h # <<>> THEN h \o <<NL, NL>> \o attendeesList
                  ELSE attendeesList
             ELSE h
    ELSE h

\* the lookup with the zero-based id as the key
SpeakerNameZeroBased(speakerMeta, speakerId) ==
    IF toString(speakerId) \in DOMAIN speakerMeta /\ Truthy(speakerMeta[toString(speakerId)])
    THEN speakerMeta[toString(speakerId)]
    ELSE UnknownSpeaker \o toString(speakerId + 1)

\* speakerMeta[(id + 1).toString()] || `Unknown Speaker ${id + 1}`
SpeakerName(speakerMeta, speakerId) ==
    LET speakerNameKey == toString(speakerId + 1)
    IN  IF speakerNameKey \in DOMAIN speakerMeta /\ Truthy(speakerMeta[speakerNameKey])
        THEN speakerMeta[speakerNameKey]
        ELSE UnknownSpeaker \o toString(speakerId + 1)

\* a sentinel that is a speaker id
InitLastSpeakerIdZero == <<0>>

\* let lastSpeakerId = null
InitLastSpeakerId == NoSpeaker

\* a comparison that never finds the speaker unchanged
SpeakerChangedAlways(currentSpeakerId, last) == TRUE

\* currentSpeakerId !== lastSpeakerId
SpeakerChanged(currentSpeakerId, last) == <<currentSpeakerId>> # last

\* the flush of the accumulator into body
Flush(b, acc) == IF acc # <<>> THEN b \o Trim(acc) \o <<NL>> ELSE b

\* an accumulation that always puts the space
AccumulateAlwaysSpace(acc, sentence) == acc \o <<" ">> \o sentence

\* the accumulation of a caption's sentence
Accumulate(acc, sentence) ==
    IF acc = <<>> THEN sentence ELSE acc \o <<" ">> \o sentence

\* the i-th caption taken in order of time, captions of one time in input order
CaptionAtByTime(captions, i) ==
    LET Before(j, k) == \/ captions[j].time < captions[k].time
                        \/ captions[j].time = captions[k].time /\ j < k
        k == CHOOSE n \in 1..Len(captions) :
                 Cardinality({j \in 1..Len(captions) : Before(j, n)}) = i - 1
    IN  captions[k]

\* the caption the i-th iteration of `for (const caption of captions)` reads
CaptionAt(captions, i) == captions[i]

\* an iteration that prints the timestamp of every caption, not only of the
\* one that opens a run
LoopStepStampsEachCaption(st, caption, speakerMeta) ==
    LET currentSpeakerId == caption.speaker_id
        speakerName == SpeakerName(speakerMeta, currentSpeakerId)
        timestamp == formatTime(caption.time)
        changed == SpeakerChanged(currentSpeakerId, st.last)
        flushed == Flush(st.body, st.acc)
        separated == IF flushed # <<>> THEN flushed \o <<NL>> ELSE flushed
        b1 == IF changed
              THEN separated \o timestamp \o <<NL>> \o speakerName \o <<NL>>
              ELSE st.body \o timestamp \o <<NL>>
        acc1 == IF changed THEN <<>> ELSE st.acc
        last1 == IF changed THEN <<currentSpeakerId>> ELSE st.last
    IN  [body |-> b1, last |-> last1, acc |-> Accumulate(acc1, caption.sentence)]

\* an iteration that puts no blank line before the header of a new run
LoopStepNoSeparator(st, caption, speakerMeta) ==
    LET currentSpeakerId == caption.speaker_id
        speakerName == SpeakerName(speakerMeta, currentSpeakerId)
        timestamp == formatTime(caption.time)
        changed == SpeakerChanged(currentSpeakerId, st.last)
        flushed == Flush(st.body, st.acc)
        b1 == IF changed
              THEN flushed \o timestamp \o <<NL>> \o speakerName \o <<NL>>
              ELSE st.body
        acc1 == IF changed THEN <<>> ELSE st.acc
        last1 == IF changed THEN <<currentSpeakerId>> ELSE st.last
    IN  [body |-> b1, last |-> last1, acc |-> Accumulate(acc1, caption.sentence)]

\* one iteration of the for-of loop over captions; st = [body, last, acc]
LoopStep(st, caption, speakerMeta) ==
    LET currentSpeakerId == caption.speaker_id
        speakerName == SpeakerName(speakerMeta, currentSpeakerId)
        timestamp == formatTime(caption.time)
        changed == SpeakerChanged(currentSpeakerId, st.last)
        flushed == Flush(st.body, st.acc)
        separated == IF flushed # <<>> THEN flushed \o <<NL>> ELSE flushed
        b1 == IF changed
              THEN separated \o timestamp \o <<NL>> \o speakerName \o <<NL>>
              ELSE st.body
        acc1 == IF changed THEN <<>> ELSE st.acc
        last1 == IF changed THEN <<currentSpeakerId>> ELSE st.last
    IN  [body |-> b1, last |-> last1, acc |-> Accumulate(acc1, caption.sentence)]

\* a return without the outer trim
FinalJoinNoOuterTrim(h, b) ==
    IF h # <<>> THEN h \o <<NL, NL>> \o Trim(b) ELSE Trim(b)

\* a join by one line feed, without the blank line
FinalJoinSingleNewline(h, b) ==
    IF h # <<>> THEN Trim(h \o <<NL>> \o Trim(b)) ELSE Trim(b)

\* the return statement
FinalJoin(h, b) ==
    IF h # <<>> THEN Trim(h \o <<NL, NL>> \o Trim(b)) ELSE Trim(b)

RECURSIVE LoopFrom(_, _, _)
LoopFrom(st, captions, speakerMeta) ==
    IF captions = <<>> THEN st
    ELSE LoopFrom(LoopStep(st, Head(captions), speakerMeta), Tail(captions), speakerMeta)

\* the whole function, as one value
FormatTranscript(note, url) ==
    IF MissingData(note) THEN Diagnostic
    ELSE IF DestructureThrows(note) THEN TypeError
    ELSE LET h == HeaderAttendees(HeaderUrl(HeaderTitle(note), url), note)
             st == LoopFrom([body |-> <<>>, last |-> InitLastSpeakerId, acc |-> <<>>],
                            note.captions, note.speakerMeta)
         IN  FinalJoin(h, Flush(st.body, st.acc))

----------------------------------------------------------------------------
(* Inputs the formatter is run on *)

SpeakerIds == {0, 1}
Sentences == { <<>>, <<"a">>, <<"b">>, <<" ">> }
Times == {5, 0}

Caption(id, sentence, time) == [speaker_id |-> id, sentence |-> sentence, time |-> time]
Captions == [speaker_id : SpeakerIds, sentence : Sentences, time : Times]

Bo == <<"B", "o">>
Amy == <<"A", "m", "y">>
Key1 == <<"1">>
Key2 == <<"2">>
NoMeta == [k \in {} |-> <<>>]
\* speakerMeta values: each of the keys "1" and "2" absent, mapped to "" or to a name
Directories ==
    UNION {[D -> {<<>>, Bo, Amy}] : D \in SUBSET {Key1, Key2}}

Attendee(d, n, e) == [displayName |-> d, name |-> n, email |-> e]
Attendees ==
    { Attendee(Null, Null, Null),
      Attendee(Null, Bo, Null),
      Attendee(Null, Null, <<"b", "@", "x">>),
      Attendee(Null, Bo, <<"b", "@", "x">>),
      Attendee(Amy, Bo, <<"a", "@", "x">>),
      Attendee(<<>>, <<>>, <<"e", "@", "x">>) }

Titles == { Null, <<>>, <<"T">>, <<"T", " ">>, <<" ", "T">>, <<" ">> }
Dates == { Null, <<"D">> }
Urls == { Null, <<"u">>, <<"u", "?", "q", "?", "r">> }

Note(miss, caps, meta, title, date, att) ==
    [missing |-> miss, captions |-> caps, speakerMeta |-> meta,
     title |-> title, date |-> date, attendees |-> att]

\* caption sequences with every text at time 0, and with every time for the
\* texts that are not blank; one directory, no header
BodyInput(note, url) ==
    \E k \in 0..MaxCaptions :
        \E caps \in [1..k -> {c \in Captions : c.time = 0}]
                      \cup [1..k -> {c \in Captions : Trim(c.sentence) # <<>>}] :
            /\ note = Note({"attendees"}, caps, (Key1 :> Bo), Null, Null, <<>>)
            /\ url = Null

\* all directories, short caption sequences
DirectoryInput(note, url) ==
    \E a \in SpeakerIds, b \in SpeakerIds, meta \in Directories :
        /\ note = Note({}, <<Caption(a, <<"a">>, 0), Caption(b, <<"b">>, 5)>>, meta,
                       Null, Null, <<>>)
        /\ url = Null

HeaderCaptions ==
    { <<>>, <<Caption(0, <<"a">>, 0), Caption(1, <<"b">>, 5)>> }

\* all headers, with and without captions
HeaderInput(note, url) ==
    \E miss \in {{}, {"attendees"}}, caps \in HeaderCaptions, title \in Titles,
       date \in Dates, u \in Urls :
        \E k \in 0..MaxAttendees : \E att \in [1..k -> Attendees] :
            /\ note = Note(miss, caps, (Key1 :> Bo), title, date, att)
            /\ url = u

\* records that lack a required part, with every optional part present
MissingInput(note, url) ==
    \E miss \in (SUBSET {"meetingNote", "captions", "speakerMeta"}) \ {{}},
       u \in {Null, <<"u">>} :
        /\ note = Note(miss, <<Caption(0, <<"a">>, 0)>>, (Key1 :> Bo), <<"T">>, <<"D">>,
                       <<Attendee(Null, Bo, Null)>>)
        /\ url = u

\* the end-to-end example of the specification
Standup == <<"S", "t", "a", "n", "d", "u", "p">>
ExampleDate == <<"2", "0", "2", "4", "-", "0", "1", "-", "0", "1">>
ExampleEmail == <<"b", "@", "x", ".", "c", "o", "m">>
ExampleNote ==
    Note({}, << Caption(0, <<"H", "i">>, 0),
                Caption(0, <<"t", "e", "a", "m">>, 2),
                Caption(1, <<"H", "e", "y">>, 5) >>,
         (Key1 :> Bo) @@ (Key2 :> Amy), Standup, ExampleDate,
         <<Attendee(Null, Bo, ExampleEmail)>>)

ExampleInput(note, url) == note = ExampleNote /\ url = Null

FormatInput(note, url) ==
    \/ BodyInput(note, url)
    \/ DirectoryInput(note, url)
    \/ HeaderInput(note, url)
    \/ MissingInput(note, url)
    \/ ExampleInput(note, url)

----------------------------------------------------------------------------
(* formatTranscript as a state machine: one action per block of the function *)

TimeIdle == totalSeconds = 0 /\ timeText = <<>>

UiIdle ==
    /\ href = <<>>
    /\ authToken = Null
    /\ refreshToken = Null
    /\ inflight = {}
    /\ requests = 0
    /\ clicks = 0
    /\ clipboard = Null
    /\ alerts = <<>>

\* no earlier call of formatTranscript
CallIdle == returned = <<>>

\* getMeetingNoteIdFromUrl has not been called
NotCalled == <<"not called">>
UrlIdle == noteId = NotCalled

\* no page: no timer, no button, no observer
DomIdle ==
    /\ lastUrl = <<>>
    /\ currentWaitForButtonContainerTimer = 0
    /\ timers = {}
    /\ nextTimerId = 1
    /\ downloadIcon = "none"
    /\ copyButtons = 0
    /\ observing = FALSE

AuxIdle == CallIdle /\ UrlIdle /\ DomIdle

InitFormat ==
    /\ FormatInput(meetingNote, meetingUrl)
    /\ pc = "check"
    /\ header = <<>>
    /\ body = <<>>
    /\ lastSpeakerId = NoSpeaker
    /\ currentSpeakerTextAccumulator = <<>>
    /\ idx = 0
    /\ result = Null
    /\ TimeIdle
    /\ UiIdle
    /\ AuxIdle

\* lines 124-127: the guard returns the diagnostic
CheckMissing ==
    /\ pc = "check"
    /\ MissingData(meetingNote)
    /\ result' = Diagnostic
    /\ pc' = "done"
    /\ UNCHANGED <<meetingNote, meetingUrl, header, body, lastSpeakerId,
                   currentSpeakerTextAccumulator, idx, timeVars, uiVars, auxVars>>

\* lines 129-137: destructuring, title and date
BuildTitle ==
    /\ pc = "check"
    /\ ~MissingData(meetingNote)
    /\ IF DestructureThrows(meetingNote)
       THEN result' = TypeError /\ pc' = "done" /\ header' = header
       ELSE header' = HeaderTitle(meetingNote) /\ pc' = "url" /\ result' = result
    /\ UNCHANGED <<meetingNote, meetingUrl, body, lastSpeakerId,
                   currentSpeakerTextAccumulator, idx, timeVars, uiVars, auxVars>>

\* lines 139-146
BuildUrl ==
    /\ pc = "url"
    /\ header' = HeaderUrl(header, meetingUrl)
    /\ pc' = "attendees"
    /\ UNCHANGED <<meetingNote, meetingUrl, body, lastSpeakerId,
                   currentSpeakerTextAccumulator, idx, result, timeVars, uiVars, auxVars>>

\* a body kept from the call before, as a variable outside the function would be
InitBodyLeaks == body

\* line 171: let body = ""
InitBody == <<>>

\* lines 148-173: the attendees block and the loop's initial state
BuildAttendees ==
    /\ pc = "attendees"
    /\ header' = HeaderAttendees(header, meetingNote)
    /\ body' = InitBody
    /\ lastSpeakerId' = InitLastSpeakerId
    /\ currentSpeakerTextAccumulator' = <<>>
    /\ pc' = "loop"
    /\ UNCHANGED <<meetingNote, meetingUrl, idx, result, timeVars, uiVars, auxVars>>

\* lines 175-200: one caption
NextCaption ==
    /\ pc = "loop"
    /\ idx < Len(meetingNote.captions)
    /\ LET st == LoopStep([body |-> body, last |-> lastSpeakerId,
                           acc |-> currentSpeakerTextAccumulator],
                          CaptionAt(meetingNote.captions, idx + 1),
                          meetingNote.speakerMeta)
       IN  /\ body' = st.body
           /\ lastSpeakerId' = st.last
           /\ currentSpeakerTextAccumulator' = st.acc
    /\ idx' = idx + 1
    /\ UNCHANGED <<meetingNote, meetingUrl, pc, header, result, timeVars, uiVars, auxVars>>

\* lines 202-204: the flush after the loop
FinalFlush ==
    /\ pc = "loop"
    /\ idx = Len(meetingNote.captions)
    /\ body' = Flush(body, currentSpeakerTextAccumulator)
    /\ pc' = "return"
    /\ UNCHANGED <<meetingNote, meetingUrl, header, lastSpeakerId,
                   currentSpeakerTextAccumulator, idx, result, timeVars, uiVars, auxVars>>

\* lines 206-210
Return ==
    /\ pc = "return"
    /\ result' = FinalJoin(header, body)
    /\ pc' = "done"
    /\ UNCHANGED <<meetingNote, meetingUrl, header, body, lastSpeakerId,
                   currentSpeakerTextAccumulator, idx, timeVars, uiVars, auxVars>>

NextFormat ==
    \/ CheckMissing
    \/ BuildTitle
    \/ BuildUrl
    \/ BuildAttendees
    \/ NextCaption
    \/ FinalFlush
    \/ Return

SpecFormat == InitFormat /\ [][NextFormat]_vars

\* formatTranscript is called again with the same arguments: the value of the
\* call before is kept for comparison, the locals get their values where the
\* function declares them
CallAgain ==
    /\ pc = "done"
    /\ Len(returned) + 1 < MaxCalls
    /\ returned' = Append(returned, result)
    /\ pc' = "check"
    /\ idx' = 0
    /\ result' = Null
    /\ UNCHANGED <<meetingNote, meetingUrl, header, body, lastSpeakerId,
                   currentSpeakerTextAccumulator, timeVars, uiVars, urlVars, domVars>>

\* the records called twice: every header, with and without captions and
\* attendees, and the records that lack a part
RepeatInput(note, url) ==
    \/ \E miss \in {{}, {"attendees"}}, caps \in HeaderCaptions, title \in Titles,
          date \in Dates, u \in Urls,
          att \in {<<>>, <<Attendee(Amy, Bo, <<"a", "@", "x">>)>>} :
           /\ note = Note(miss, caps, (Key1 :> Bo), title, date, att)
           /\ url = u
    \/ MissingInput(note, url)
    \/ ExampleInput(note, url)

InitRepeat ==
    /\ RepeatInput(meetingNote, meetingUrl)
    /\ pc = "check"
    /\ header = <<>>
    /\ body = <<>>
    /\ lastSpeakerId = NoSpeaker
    /\ currentSpeakerTextAccumulator = <<>>
    /\ idx = 0
    /\ result = Null
    /\ TimeIdle
    /\ UiIdle
    /\ AuxIdle

NextRepeat ==
    \/ NextFormat
    \/ CallAgain

SpecRepeat == InitRepeat /\ [][NextRepeat]_vars

----------------------------------------------------------------------------
(* formatTime on every whole number of seconds up to MaxSeconds *)

FormatIdle ==
    /\ meetingNote = Note({"meetingNote"}, <<>>, NoMeta, Null, Null, <<>>)
    /\ meetingUrl = Null
    /\ pc = "idle"
    /\ header = <<>>
    /\ body = <<>>
    /\ lastSpeakerId = NoSpeaker
    /\ currentSpeakerTextAccumulator = <<>>
    /\ idx = 0
    /\ result = Null

InitTime ==
    /\ totalSeconds \in 0..MaxSeconds
    /\ timeText = <<>>
    /\ FormatIdle
    /\ UiIdle
    /\ AuxIdle

CallFormatTime ==
    /\ pc = "idle"
    /\ timeText = <<>>
    /\ timeText' = formatTime(totalSeconds)
    /\ UNCHANGED <<totalSeconds, fmtVars, uiVars, auxVars>>

NextTime == CallFormatTime

SpecTime == InitTime /\ [][NextTime]_vars

----------------------------------------------------------------------------
(* getMeetingNoteIdFromUrl *)

\* the least position >= from at which sub occurs in s, or 0
IndexOf(s, sub, from) ==
    LET P == {p \in from..(Len(s) - Len(sub) + 1) : SubSeq(s, p, p + Len(sub) - 1) = sub}
    IN  IF P = {} THEN 0 ELSE CHOOSE p \in P : \A q \in P : p <= q

\* s.includes(sub)
Includes(s, sub) == IndexOf(s, sub, 1) # 0

\* s.split(sep), for a non-empty separator
RECURSIVE Split(_, _)
Split(s, sep) ==
    LET p == IndexOf(s, sep, 1)
    IN  IF p = 0 THEN <<s>>
        ELSE <<SubSeq(s, 1, p - 1)>> \o Split(SubSeq(s, p + Len(sep), Len(s)), sep)

\* the longest prefix of s with no character of stop
RECURSIVE TakeUntil(_, _)
TakeUntil(s, stop) ==
    IF s = <<>> \/ Head(s) \in stop THEN <<>>
    ELSE <<Head(s)>> \o TakeUntil(Tail(s), stop)

ViewSlash == <<"v", "i", "e", "w", "/">>
ColonColon == <<":", ":">>
IdStop == {"/", "?", "#"}

\* href.match(/view\/([^/?#]+)/): the captured group, or Null
ViewMatch(s) ==
    LET P == {p \in 1..(Len(s) - 5) :
                /\ SubSeq(s, p, p + 4) = ViewSlash
                /\ s[p + 5] \notin IdStop}
    IN  IF P = {} THEN Null
        ELSE LET p == CHOOSE p \in P : \A q \in P : p <= q
             IN  TakeUntil(SubSeq(s, p + 5, Len(s)), IdStop)

getMeetingNoteIdFromUrl(url) ==
    LET potentialId == ViewMatch(url)
        urlParts == Split(url, <<"/">>)
        withSep == {k \in 1..Len(urlParts) : Includes(urlParts[k], ColonColon)}
    IN  IF Truthy(potentialId)
        THEN IF Includes(potentialId, ColonColon)
             THEN Split(potentialId, ColonColon)[2]
             ELSE potentialId
        ELSE IF withSep # {}
             THEN LET viewSegment == urlParts[CHOOSE k \in withSep : \A j \in withSep : k <= j]
                  IN  Split(Split(viewSegment, ColonColon)[2], <<"?">>)[1]
             ELSE Null

----------------------------------------------------------------------------
(* The click handler and fetchAndCopyTranscriptData *)

Alert(text, status) == [text |-> text, status |-> status]

AlertTokensNotFound ==
    Alert("Fireflies Script: Auth tokens not found. Please ensure you are logged in and tokens are in localStorage.", 0)
AlertNoMeetingId == Alert("Error: Could not determine Meeting ID.", 0)
AlertNoTokens == Alert("Error: Auth tokens not found. Please ensure you are logged in.", 0)
AlertCouldNotCopy ==
    Alert("Could not copy transcript. Missing Auth Tokens or Meeting ID. Check console.", 0)
AlertCopied == Alert("Transcript copied to clipboard!", 0)
AlertNoTranscriptData ==
    Alert("Error: Could not retrieve transcript data. Check console for details.", 0)
AlertCouldNotParse ==
    Alert("Error: Could not parse transcript data. Check console for details.", 0)
AlertHttpError(status) ==
    Alert("Error fetching transcript: ${response.status}. Check console for details.", status)
AlertNetworkError ==
    Alert("Network error while fetching transcript. Check console for details.", 0)
AlertTimedOut == Alert("Request to fetch transcript timed out.", 0)

\* getAuthDetails() returned an object and not null
HasAuthDetails == Truthy(authToken) /\ Truthy(refreshToken)

\* the alerts of getAuthDetails
AuthAlerts == IF HasAuthDetails THEN <<>> ELSE <<AlertTokensNotFound>>

\* fetchAndCopyTranscriptData up to the GM_xmlhttpRequest call: the alert of
\* a guard that returned, or <<>> when the request is sent
FetchGuardAlerts(meetingNoteId, token, refreshTok) ==
    IF ~Truthy(meetingNoteId) THEN <<AlertNoMeetingId>>
    ELSE IF ~Truthy(token) \/ ~Truthy(refreshTok) THEN <<AlertNoTokens>>
    ELSE <<>>

\* the GM_xmlhttpRequest details: the callbacks close over meetingUrl; no
\* timeout is set
Request(n, meetingNoteId, url) ==
    [n |-> n, meetingNoteId |-> meetingNoteId, meetingUrl |-> url, timeout |-> 0]

\* a click listener that sends the request without looking at tokens and id
ClickAlwaysSends ==
    /\ clicks < MaxClicks
    /\ clicks' = clicks + 1
    /\ alerts' = alerts
    /\ requests' = requests + 1
    /\ inflight' = inflight \cup
          {Request(requests + 1, getMeetingNoteIdFromUrl(href), href)}
    /\ UNCHANGED <<href, authToken, refreshToken, clipboard, fmtVars, timeVars, auxVars>>

\* the click listener of the Copy Transcript button, with the synchronous part
\* of fetchAndCopyTranscriptData it calls
Click ==
    /\ clicks < MaxClicks
    /\ clicks' = clicks + 1
    /\ LET meetingNoteId == getMeetingNoteIdFromUrl(href)
           url == href
       IN  IF HasAuthDetails /\ Truthy(meetingNoteId)
           THEN LET guard == FetchGuardAlerts(meetingNoteId, authToken, refreshToken)
                IN  /\ alerts' = alerts \o AuthAlerts \o guard
                    /\ IF guard = <<>>
                       THEN /\ requests' = requests + 1
                            /\ inflight' = inflight \cup
                                  {Request(requests + 1, meetingNoteId, url)}
                       ELSE UNCHANGED <<requests, inflight>>
           ELSE /\ alerts' = alerts \o AuthAlerts \o <<AlertCouldNotCopy>>
                /\ UNCHANGED <<requests, inflight>>
    /\ UNCHANGED <<href, authToken, refreshToken, clipboard, fmtVars, timeVars, auxVars>>

\* response.responseText, as JSON.parse sees it
Unparsable == [kind |-> "unparsable", meetingNote |-> Note({"meetingNote"}, <<>>, NoMeta, Null, Null, <<>>)]
NoData == [kind |-> "no data", meetingNote |-> Note({"meetingNote"}, <<>>, NoMeta, Null, Null, <<>>)]
NoMeetingNote == [kind |-> "no meetingNote", meetingNote |-> Note({"meetingNote"}, <<>>, NoMeta, Null, Null, <<>>)]
WithMeetingNote(note) == [kind |-> "meetingNote", meetingNote |-> note]

\* parsedResponse.data && parsedResponse.data.meetingNote
HasMeetingNote(text) == text.kind = "meetingNote"

\* what onload writes to the clipboard
Copied(note, url) == FormatTranscript(note, url)

\* an onload that copies the transcript whatever the status is
OnloadCopiesOnAnyStatus(r, status, text) ==
    /\ r \in inflight
    /\ inflight' = inflight \ {r}
    /\ IF text.kind = "unparsable"
       THEN /\ alerts' = Append(alerts, AlertCouldNotParse)
            /\ clipboard' = clipboard
       ELSE IF HasMeetingNote(text)
            THEN /\ clipboard' = Copied(text.meetingNote, r.meetingUrl)
                 /\ alerts' = Append(alerts, AlertCopied)
            ELSE /\ alerts' = Append(alerts, AlertNoTranscriptData)
                 /\ clipboard' = clipboard
    /\ UNCHANGED <<href, authToken, refreshToken, requests, clicks, fmtVars, timeVars, auxVars>>

\* an onload that reads the location when the response arrives
OnloadUsesCurrentUrl(r, status, text) ==
    /\ r \in inflight
    /\ inflight' = inflight \ {r}
    /\ IF status >= 200 /\ status < 300
       THEN IF text.kind = "unparsable"
            THEN /\ alerts' = Append(alerts, AlertCouldNotParse)
                 /\ clipboard' = clipboard
            ELSE IF HasMeetingNote(text)
                 THEN /\ clipboard' = Copied(text.meetingNote, href)
                      /\ alerts' = Append(alerts, AlertCopied)
                 ELSE /\ alerts' = Append(alerts, AlertNoTranscriptData)
                      /\ clipboard' = clipboard
       ELSE /\ alerts' = Append(alerts, AlertHttpError(status))
            /\ clipboard' = clipboard
    /\ UNCHANGED <<href, authToken, refreshToken, requests, clicks, fmtVars, timeVars, auxVars>>

\* an onload that goes on to the no-data alert after the success alert
OnloadNotifiesTwice(r, status, text) ==
    /\ r \in inflight
    /\ inflight' = inflight \ {r}
    /\ IF status >= 200 /\ status < 300
       THEN IF text.kind = "unparsable"
            THEN /\ alerts' = Append(alerts, AlertCouldNotParse)
                 /\ clipboard' = clipboard
            ELSE IF HasMeetingNote(text)
                 THEN /\ clipboard' = Copied(text.meetingNote, r.meetingUrl)
                      /\ alerts' = alerts \o <<AlertCopied, AlertNoTranscriptData>>
                 ELSE /\ alerts' = Append(alerts, AlertNoTranscriptData)
                      /\ clipboard' = clipboard
       ELSE /\ alerts' = Append(alerts, AlertHttpError(status))
            /\ clipboard' = clipboard
    /\ UNCHANGED <<href, authToken, refreshToken, requests, clicks, fmtVars, timeVars, auxVars>>

\* onload of request r with a response of the given status and text
Onload(r, status, text) ==
    /\ r \in inflight
    /\ inflight' = inflight \ {r}
    /\ IF status >= 200 /\ status < 300
       THEN IF text.kind = "unparsable"
            THEN /\ alerts' = Append(alerts, AlertCouldNotParse)
                 /\ clipboard' = clipboard
            ELSE IF HasMeetingNote(text)
                 THEN /\ clipboard' = Copied(text.meetingNote, r.meetingUrl)
                      /\ alerts' = Append(alerts, AlertCopied)
                 ELSE /\ alerts' = Append(alerts, AlertNoTranscriptData)
                      /\ clipboard' = clipboard
       ELSE /\ alerts' = Append(alerts, AlertHttpError(status))
            /\ clipboard' = clipboard
    /\ UNCHANGED <<href, authToken, refreshToken, requests, clicks, fmtVars, timeVars, auxVars>>

\* onerror of request r
Onerror(r) ==
    /\ r \in inflight
    /\ inflight' = inflight \ {r}
    /\ alerts' = Append(alerts, AlertNetworkError)
    /\ UNCHANGED <<href, authToken, refreshToken, requests, clicks, clipboard,
                   fmtVars, timeVars, auxVars>>

\* ontimeout of request r: called only for a request with a timeout
Ontimeout(r) ==
    /\ r \in inflight
    /\ r.timeout > 0
    /\ inflight' = inflight \ {r}
    /\ alerts' = Append(alerts, AlertTimedOut)
    /\ UNCHANGED <<href, authToken, refreshToken, requests, clicks, clipboard,
                   fmtVars, timeVars, auxVars>>

----------------------------------------------------------------------------
(* The page and the server *)

Origin ==
    <<"h", "t", "t", "p", "s", ":", "/", "/", "a", "p", "p", ".",
      "f", "i", "r", "e", "f", "l", "i", "e", "s", ".", "a", "i", "/">>
\* https://app.fireflies.ai/view/m1
UrlPlain == Origin \o ViewSlash \o <<"m", "1">>
\* https://app.fireflies.ai/view/Standup::m2?ref=x
UrlLegacy ==
    Origin \o ViewSlash \o <<"S", "t", "a", "n", "d", "u", "p", ":", ":", "m", "2",
                             "?", "r", "e", "f", "=", "x">>
\* https://app.fireflies.ai/notebook
UrlOther == Origin \o <<"n", "o", "t", "e", "b", "o", "o", "k">>
Hrefs == {UrlPlain, UrlLegacy, UrlOther}

Tokens == {Null, <<"t">>}
Statuses == {200, 299, 300, 500}

TwoSpeakers ==
    Note({}, <<Caption(0, <<"a">>, 0), Caption(1, <<"b">>, 65)>>, (Key1 :> Bo),
         <<"T">>, Null, <<>>)
ResponseTexts ==
    { Unparsable, NoData, NoMeetingNote,
      WithMeetingNote(TwoSpeakers),
      WithMeetingNote([TwoSpeakers EXCEPT !.missing = {"captions"}]),
      WithMeetingNote([TwoSpeakers EXCEPT !.missing = {"speakerMeta"}]) }

\* the parts of a /view/ segment and what follows the segment in the URL
Parts == { <<>>, <<"a">>, <<"b">> }
Tails == { <<>>, <<"/", "e">>, <<"?", "q", ":", ":", "r">>, <<"#", "h">> }

\* parts joined by "::"
RECURSIVE JoinParts(_)
JoinParts(parts) ==
    IF Len(parts) = 1 THEN parts[1]
    ELSE parts[1] \o ColonColon \o JoinParts(Tail(parts))

\* https://app.fireflies.ai/view/<segment><tail>, the segment with up to
\* MaxParts parts
UrlInput(url) ==
    \E k \in 1..MaxParts : \E parts \in [1..k -> Parts] : \E tail \in Tails :
        url = Origin \o ViewSlash \o JoinParts(parts) \o tail

InitUrl ==
    /\ UrlInput(href)
    /\ authToken = Null
    /\ refreshToken = Null
    /\ inflight = {}
    /\ requests = 0
    /\ clicks = 0
    /\ clipboard = Null
    /\ alerts = <<>>
    /\ FormatIdle
    /\ TimeIdle
    /\ AuxIdle

\* a call of getMeetingNoteIdFromUrl on the page
CallGetMeetingNoteIdFromUrl ==
    /\ noteId = NotCalled
    /\ noteId' = getMeetingNoteIdFromUrl(href)
    /\ UNCHANGED <<fmtVars, timeVars, uiVars, callVars, domVars>>

NextUrl == CallGetMeetingNoteIdFromUrl

SpecUrl == InitUrl /\ [][NextUrl]_vars

\* href.startsWith("https://app.fireflies.ai/view/")
StartsWithView(url) ==
    Len(url) >= Len(Origin \o ViewSlash)
      /\ SubSeq(url, 1, Len(Origin \o ViewSlash)) = Origin \o ViewSlash

\* SPA navigation: the location changes
Navigate(u) ==
    /\ u # href
    /\ href' = u
    /\ UNCHANGED <<authToken, refreshToken, inflight, requests, clicks, clipboard,
                   alerts, fmtVars, timeVars, auxVars>>

Init ==
    /\ href \in Hrefs
    /\ authToken \in Tokens
    /\ refreshToken \in Tokens
    /\ inflight = {}
    /\ requests = 0
    /\ clicks = 0
    /\ clipboard = Null
    /\ alerts = <<>>
    /\ FormatIdle
    /\ TimeIdle
    /\ AuxIdle

Next ==
    \/ Click
    \/ \E u \in Hrefs : Navigate(u)
    \/ \E r \in inflight, status \in Statuses, text \in ResponseTexts : Onload(r, status, text)
    \/ \E r \in inflight : Onerror(r)

Spec == Init /\ [][Next]_vars

----------------------------------------------------------------------------
(* The page: waitForElement, createCopyButton, initializeActiveViewFeatures
   and the MutationObserver.  A timer is [id, selector, elapsedTime]; the
   selector is "body" or "icon" (downloadIconPathSelector).  The download icon
   is "none", "bare" (the path matches with no wrapper around it to clone) or
   "wrapped". *)

\* waitForElement: timeout = 10000
Timeout == 10000
\* waitForElement: interval = 100
Interval == 100

\* the part of the page state the functions below change
Page ==
    [currentWaitForButtonContainerTimer |-> currentWaitForButtonContainerTimer,
     timers |-> timers, nextTimerId |-> nextTimerId, copyButtons |-> copyButtons]

clearInterval(p, id) == [p EXCEPT !.timers = {t \in @ : t.id # id}]

\* waitForElement(selector, callback): the timer started has id p.nextTimerId
waitForElement(p, selector) ==
    [p EXCEPT !.timers = @ \cup {[id |-> p.nextTimerId, selector |-> selector,
                                   elapsedTime |-> 0]},
              !.nextTimerId = @ + 1]

\* a wait started without looking for the button first
createCopyButtonNoCheck(p) ==
    [waitForElement(p, "icon") EXCEPT
         !.currentWaitForButtonContainerTimer = p.nextTimerId]

createCopyButton(p) ==
    IF p.copyButtons > 0 THEN p
    ELSE [waitForElement(p, "icon") EXCEPT
              !.currentWaitForButtonContainerTimer = p.nextTimerId]

\* the button left where it is
RemoveExistingButtonKeepsIt(p) == p

\* existingButton.remove(), when there is one
RemoveExistingButton(p) ==
    IF p.copyButtons > 0 THEN [p EXCEPT !.copyButtons = @ - 1] ELSE p

\* the variable reset without the clearInterval
ClearPendingWaitKeepsTimer(p) ==
    [p EXCEPT !.currentWaitForButtonContainerTimer = 0]

\* lines 350-354: the pending wait is cleared
ClearPendingWait(p) ==
    IF p.currentWaitForButtonContainerTimer # 0
    THEN [clearInterval(p, p.currentWaitForButtonContainerTimer) EXCEPT
              !.currentWaitForButtonContainerTimer = 0]
    ELSE p

\* getMeetingNoteIdFromUrl() at each location of the page
MeetingNoteIdAt == [url \in Hrefs \cup {Origin \o ViewSlash} |-> getMeetingNoteIdFromUrl(url)]

initializeActiveViewFeatures(p, url) ==
    IF StartsWithView(url)
    THEN IF Truthy(MeetingNoteIdAt[url])
         THEN createCopyButton(ClearPendingWait(p))
         ELSE RemoveExistingButton(ClearPendingWait(p))
    ELSE RemoveExistingButton(ClearPendingWait(p))

\* the page state is set from p
SetPage(p) ==
    /\ currentWaitForButtonContainerTimer' = p.currentWaitForButtonContainerTimer
    /\ timers' = p.timers
    /\ nextTimerId' = p.nextTimerId
    /\ copyButtons' = p.copyButtons

\* https://app.fireflies.ai/view/
UrlViewNoId == Origin \o ViewSlash
PageHrefs == Hrefs \cup {UrlViewNoId}
DownloadIcons == {"none", "bare", "wrapped"}

\* the script has run: initializeActiveViewFeatures(), let lastUrl, the
\* observer created, waitForElement('body', ...)
InitPage ==
    /\ href \in PageHrefs
    /\ downloadIcon \in DownloadIcons
    /\ lastUrl = href
    /\ observing = FALSE
    /\ LET empty == [currentWaitForButtonContainerTimer |-> 0, timers |-> {},
                     nextTimerId |-> 1, copyButtons |-> 0]
           p == waitForElement(initializeActiveViewFeatures(empty, href), "body")
       IN  /\ currentWaitForButtonContainerTimer = p.currentWaitForButtonContainerTimer
           /\ timers = p.timers
           /\ nextTimerId = p.nextTimerId
           /\ copyButtons = p.copyButtons
    /\ authToken = Null
    /\ refreshToken = Null
    /\ inflight = {}
    /\ requests = 0
    /\ clicks = 0
    /\ clipboard = Null
    /\ alerts = <<>>
    /\ FormatIdle
    /\ TimeIdle
    /\ CallIdle
    /\ UrlIdle

\* the page draws or removes the download icon
RenderIcon(icon) ==
    /\ icon # downloadIcon
    /\ downloadIcon' = icon
    /\ UNCHANGED <<lastUrl, currentWaitForButtonContainerTimer, timers, nextTimerId,
                   copyButtons, observing, fmtVars, timeVars, uiVars, callVars, urlVars>>

\* an observer callback that never stores the URL it has seen
ObserverCallbackKeepsLastUrl ==
    /\ observing
    /\ IF href # lastUrl
       THEN /\ lastUrl' = lastUrl
            /\ LET p == initializeActiveViewFeatures(Page, href)
               IN  /\ p.nextTimerId <= MaxTimers + 1
                   /\ SetPage(p)
       ELSE UNCHANGED <<lastUrl, currentWaitForButtonContainerTimer, timers,
                        nextTimerId, copyButtons>>
    /\ UNCHANGED <<downloadIcon, observing, fmtVars, timeVars, uiVars, callVars, urlVars>>

\* an observer callback that initializes the page on every mutation
ObserverCallbackAlwaysReinitializes ==
    /\ observing
    /\ lastUrl' = href
    /\ LET p == initializeActiveViewFeatures(Page, href)
       IN  /\ p.nextTimerId <= MaxTimers + 1
           /\ SetPage(p)
    /\ UNCHANGED <<downloadIcon, observing, fmtVars, timeVars, uiVars, callVars, urlVars>>

\* the MutationObserver callback
ObserverCallback ==
    /\ observing
    /\ IF href # lastUrl
       THEN /\ lastUrl' = href
            /\ LET p == initializeActiveViewFeatures(Page, href)
               IN  /\ p.nextTimerId <= MaxTimers + 1
                   /\ SetPage(p)
       ELSE UNCHANGED <<lastUrl, currentWaitForButtonContainerTimer, timers,
                        nextTimerId, copyButtons>>
    /\ UNCHANGED <<downloadIcon, observing, fmtVars, timeVars, uiVars, callVars, urlVars>>

\* an interval callback that does not clear its timer when the icon is found
TickKeepsPollingWhenFound(t) ==
    /\ t \in timers
    /\ IF t.selector = "body"
       THEN /\ timers' = timers \ {t}
            /\ observing' = TRUE
            /\ UNCHANGED copyButtons
       ELSE IF downloadIcon # "none"
       THEN /\ timers' = timers
            /\ copyButtons' = IF downloadIcon = "wrapped" THEN copyButtons + 1
                               ELSE copyButtons
            /\ UNCHANGED observing
       ELSE /\ timers' = IF t.elapsedTime + Interval >= Timeout
                          THEN timers \ {t}
                          ELSE (timers \ {t}) \cup
                                  {[t EXCEPT !.elapsedTime = @ + Interval]}
            /\ UNCHANGED <<copyButtons, observing>>
    /\ UNCHANGED <<lastUrl, currentWaitForButtonContainerTimer, nextTimerId,
                   downloadIcon, fmtVars, timeVars, uiVars, callVars, urlVars>>

\* the interval callback of timer t
Tick(t) ==
    /\ t \in timers
    /\ IF t.selector = "body"
       THEN \* document.body is there: the observer starts
            /\ timers' = timers \ {t}
            /\ observing' = TRUE
            /\ UNCHANGED copyButtons
       ELSE IF downloadIcon # "none"
       THEN \* found: the timer is cleared and the callback of createCopyButton runs
            /\ timers' = timers \ {t}
            /\ copyButtons' = IF downloadIcon = "wrapped" THEN copyButtons + 1
                               ELSE copyButtons
            /\ UNCHANGED observing
       ELSE /\ timers' = IF t.elapsedTime + Interval >= Timeout
                          THEN timers \ {t}
                          ELSE (timers \ {t}) \cup
                                  {[t EXCEPT !.elapsedTime = @ + Interval]}
            /\ UNCHANGED <<copyButtons, observing>>
    /\ UNCHANGED <<lastUrl, currentWaitForButtonContainerTimer, nextTimerId,
                   downloadIcon, fmtVars, timeVars, uiVars, callVars, urlVars>>

\* navigation goes on while timer ids are left for the initialization after it
NextPage ==
    \/ \E u \in PageHrefs : nextTimerId <= MaxTimers /\ Navigate(u)
    \/ \E icon \in DownloadIcons : RenderIcon(icon)
    \/ ObserverCallback
    \/ \E t \in timers : Tick(t)

SpecPage == InitPage /\ [][NextPage]_vars

\* the page with its scheduling: an interval timer that is not cleared fires
\* again, and the observer callback runs after a mutation of the page, which a
\* change of the URL brings with it
SpecPageLive ==
    /\ InitPage
    /\ [][NextPage]_vars
    /\ WF_vars(\E t \in timers : Tick(t))
    /\ WF_vars(ObserverCallback)

----------------------------------------------------------------------------
(* Vocabulary of the properties *)

StartsWith(s, prefix) ==
    Len(prefix) <= Len(s) /\ SubSeq(s, 1, Len(prefix)) = prefix

EndsWith(s, suffix) ==
    Len(suffix) <= Len(s) /\ SubSeq(s, Len(s) - Len(suffix) + 1, Len(s)) = suffix

\* the record reached the loop: captions and speakerMeta are there
InBody == pc \in {"loop", "return", "done"} /\ ~MissingData(meetingNote)

\* caption i opens a maximal run of captions with one speaker_id
RunStart(caps, i) == i = 1 \/ caps[i].speaker_id # caps[i - 1].speaker_id

\* the first caption of the run caption i belongs to
RunStartOf(caps, i) ==
    CHOOSE r \in 1..i :
        /\ RunStart(caps, r)
        /\ \A m \in r..i : caps[m].speaker_id = caps[i].speaker_id

\* the header of a run: the time of caption c and the name the code resolves
HeaderOf(c, meta) ==
    formatTime(c.time) \o <<NL>> \o SpeakerName(meta, c.speaker_id) \o <<NL>>

\* an iteration of the loop is being taken
Iterates == pc = "loop" /\ idx' = idx + 1

----------------------------------------------------------------------------
(* C1: a timestamp + speaker-name header is appended to the body at exactly
   the captions that open a maximal run of one speaker_id, and nothing is
   appended at the other captions; the body only grows, so the headers stand
   in the order of the runs. *)
C1_OneHeaderPerRun ==
    [][Iterates =>
         LET caps == meetingNote.captions
             c == caps[idx']
         IN  IF RunStart(caps, idx')
             THEN /\ StartsWith(body', body)
                  /\ EndsWith(body', HeaderOf(c, meetingNote.speakerMeta))
                  /\ Len(body') - Len(body) <=
                        Len(HeaderOf(c, meetingNote.speakerMeta)) + 1
                          + (IF idx = 0 THEN 0
                             ELSE Len(currentSpeakerTextAccumulator) + 1)
             ELSE body' = body]_vars

\* three captions, two runs: the second caption continued the first run, the
\* third opened the second run and its header closes the body
C1_Witness ==
    /\ pc = "loop" /\ idx = 3
    /\ meetingNote.captions[1].speaker_id = meetingNote.captions[2].speaker_id
    /\ meetingNote.captions[3].speaker_id # meetingNote.captions[2].speaker_id
    /\ EndsWith(body, HeaderOf(meetingNote.captions[3], meetingNote.speakerMeta))
    /\ StartsWith(body, HeaderOf(meetingNote.captions[1], meetingNote.speakerMeta))

----------------------------------------------------------------------------
(* C2 *)

\* every sentence of captions r..i is the empty string
AllEmpty(caps, r, i) == \A m \in r..i : caps[m].sentence = <<>>

\* caption idx' continues the run of the caption before it
Continues ==
    /\ Iterates
    /\ idx >= 1
    /\ meetingNote.captions[idx'].speaker_id = meetingNote.captions[idx].speaker_id

(* C2, as stated: for two adjacent captions with equal speaker_id no header is
   emitted between them and the accumulated text of the segment ends with the
   first text, one space, the second text. *)
C2_AdjacentSpaceJoined ==
    [][Continues =>
         /\ body' = body
         /\ EndsWith(currentSpeakerTextAccumulator',
                     meetingNote.captions[idx].sentence \o <<" ">>
                        \o meetingNote.captions[idx'].sentence)]_vars

(* C2, amended: for two adjacent captions with equal speaker_id no header is
   emitted between them; the second text is appended to the accumulated text
   of the segment after a single space, unless every sentence of the run so
   far is empty, and then the second text alone becomes the accumulated
   text. *)
C2_AdjacentSpaceJoinedUnlessEmpty ==
    [][Continues =>
         LET caps == meetingNote.captions
             sentence == caps[idx'].sentence
         IN  /\ body' = body
             /\ currentSpeakerTextAccumulator' =
                  IF AllEmpty(caps, RunStartOf(caps, idx), idx)
                  THEN sentence
                  ELSE currentSpeakerTextAccumulator \o <<" ">> \o sentence]_vars

\* two captions of one speaker, "a" then "b", accumulated as "a b"
C2_Witness ==
    /\ pc = "loop" /\ idx = 2
    /\ meetingNote.captions[1].speaker_id = meetingNote.captions[2].speaker_id
    /\ meetingNote.captions[1].sentence = <<"a">>
    /\ meetingNote.captions[2].sentence = <<"b">>
    /\ currentSpeakerTextAccumulator = <<"a", " ", "b">>
    /\ body = HeaderOf(meetingNote.captions[1], meetingNote.speakerMeta)

----------------------------------------------------------------------------
(* C3: the initial lastSpeakerId equals no speaker id, 0 included, and once
   the first caption is consumed the body begins with its timestamp line and
   its speaker-name line. *)
C3_FirstCaptionEmitsHeader ==
    /\ (pc = "loop" /\ idx = 0) =>
          /\ lastSpeakerId # <<0>>
          /\ \A i \in 1..Len(meetingNote.captions) :
                lastSpeakerId # <<meetingNote.captions[i].speaker_id>>
    /\ (InBody /\ idx >= 1) =>
          StartsWith(body, HeaderOf(meetingNote.captions[1], meetingNote.speakerMeta))

\* the first caption carries speaker id 0 and its header opens the body
C3_Witness ==
    /\ pc = "loop" /\ idx = 1
    /\ meetingNote.captions[1].speaker_id = 0
    /\ body = HeaderOf(meetingNote.captions[1], meetingNote.speakerMeta)
    /\ lastSpeakerId = <<0>>

----------------------------------------------------------------------------
(* C4, C5: the name in the header of a run *)

\* the name C4 states for speaker id i: the entry under string(i + 1) when the
\* directory has one, else the fallback
StatedName(meta, i) ==
    IF toString(i + 1) \in DOMAIN meta THEN meta[toString(i + 1)]
    ELSE UnknownSpeaker \o toString(i + 1)

\* the caption just consumed opened a run, so its header closes the body
HeaderJustWritten ==
    pc = "loop" /\ idx >= 1 /\ RunStart(meetingNote.captions, idx)

(* C4: the name in the header of a run is the directory entry under the key
   string(speaker_id + 1) when the directory has that key, and otherwise
   "Unknown Speaker " followed by speaker_id + 1. *)
C4_NameIsEntryOrFallback ==
    HeaderJustWritten =>
        LET c == meetingNote.captions[idx]
        IN  EndsWith(body, formatTime(c.time) \o <<NL>>
                             \o StatedName(meetingNote.speakerMeta, c.speaker_id)
                             \o <<NL>>)

(* C5: when the directory maps the key string(speaker_id + 1) to the empty
   string, the name line of the header is empty and is not the
   "Unknown Speaker N" fallback. *)
C5_EmptyEntryIsReturned ==
    LET c == meetingNote.captions[idx]
        key == toString(c.speaker_id + 1)
    IN  (/\ HeaderJustWritten
         /\ key \in DOMAIN meetingNote.speakerMeta
         /\ meetingNote.speakerMeta[key] = <<>>) =>
            /\ EndsWith(body, formatTime(c.time) \o <<NL, NL>>)
            /\ ~EndsWith(body, UnknownSpeaker \o key \o <<NL>>)

----------------------------------------------------------------------------
(* C6: a record that is absent, or lacks captions or speakerMeta, yields the
   diagnostic string and no exception; a record that has both never yields the
   diagnostic, whichever of title, date, attendees and URL are absent. *)
C6_MissingDataYieldsDiagnostic ==
    pc = "done" =>
        /\ result # TypeError
        /\ result = Diagnostic <=>
              meetingNote.missing \cap {"meetingNote", "captions", "speakerMeta"} # {}

\* the record itself is absent and the diagnostic was returned
C6_Witness ==
    /\ pc = "done"
    /\ "meetingNote" \in meetingNote.missing
    /\ result = Diagnostic

----------------------------------------------------------------------------
(* C9 *)

\* the call returned for a record with captions = []
EmptyCaptionsDone ==
    pc = "done" /\ ~MissingData(meetingNote) /\ meetingNote.captions = <<>>

(* C9, as stated: with no captions the result is exactly the header (the empty
   string when the header is empty). *)
C9_EmptyCaptionsYieldHeader ==
    EmptyCaptionsDone => result = header

(* C9, amended: with no captions the result is the header with its leading and
   trailing whitespace removed: no body section and no trailing blank lines
   (the empty string when the header is empty or all whitespace). *)
C9_EmptyCaptionsYieldTrimmedHeader ==
    EmptyCaptionsDone =>
        /\ result = Trim(header)
        /\ body = <<>>
        /\ (header = <<>> => result = <<>>)
        /\ (header # <<>> /\ Head(header) \notin WhiteSpace
              /\ header[Len(header)] \notin WhiteSpace) => result = header

\* no captions, a header of title, date, URL and an attendee, returned as it is
C9_Witness ==
    /\ EmptyCaptionsDone
    /\ Truthy(meetingNote.title) /\ Truthy(meetingNote.date) /\ Truthy(meetingUrl)
    /\ Len(meetingNote.attendees) > 0
    /\ Len(header) > Len(meetingNote.title) + Len(meetingNote.date) + 5
    /\ result = header

----------------------------------------------------------------------------
(* C10: the end-to-end example *)

ExampleOutput ==
    Standup \o <<" ", "|", " ">> \o ExampleDate \o <<NL, NL>>
      \o Bo \o <<" ">> \o ExampleEmail \o <<NL, NL>>
      \o <<"0", "0", ":", "0", "0", NL>> \o Bo \o <<NL>>
      \o <<"H", "i", " ", "t", "e", "a", "m", NL, NL>>
      \o <<"0", "0", ":", "0", "5", NL>> \o Amy \o <<NL>>
      \o <<"H", "e", "y">>

IsExample ==
    /\ meetingNote.title = Standup
    /\ meetingNote.date = ExampleDate
    /\ meetingNote.missing = {}
    /\ meetingNote.attendees = <<Attendee(Null, Bo, ExampleEmail)>>
    /\ DOMAIN meetingNote.speakerMeta = {Key1, Key2}
    /\ meetingNote.speakerMeta[Key1] = Bo
    /\ meetingNote.speakerMeta[Key2] = Amy
    /\ meetingNote.captions =
         << Caption(0, <<"H", "i">>, 0), Caption(0, <<"t", "e", "a", "m">>, 2),
            Caption(1, <<"H", "e", "y">>, 5) >>
    /\ meetingUrl = Null

(* C10: for the example record and no meeting URL the call returns exactly the
   example document. *)
C10_EndToEndExample ==
    (pc = "done" /\ IsExample) => result = ExampleOutput

C10_Witness ==
    pc = "done" /\ IsExample /\ result = ExampleOutput

----------------------------------------------------------------------------
(* C7: the diagnostic string is never on the clipboard with the success
   notification as the latest alert: the onload path treats a formatter
   result that is the diagnostic as a failure. *)
C7_DiagnosticIsNotCopiedAsSuccess ==
    ~(/\ clipboard = Diagnostic
      /\ alerts # <<>>
      /\ alerts[Len(alerts)] = AlertCopied)

----------------------------------------------------------------------------
(* C8 *)

DigitChars == {"0", "1", "2", "3", "4", "5", "6", "7", "8", "9"}

\* the value of a decimal digit character
DigitValue(ch) == CHOOSE d \in 0..9 : DigitChar(d) = ch

\* the number a string of decimal digits denotes
RECURSIVE Denotes(_)
Denotes(digits) ==
    IF digits = <<>> THEN 0
    ELSE 10 * Denotes(SubSeq(digits, 1, Len(digits) - 1)) + DigitValue(digits[Len(digits)])

IsDigits(s) == \A k \in 1..Len(s) : s[k] \in DigitChars

(* C8: formatTime(s) is a minutes field, ':' and a seconds field; the seconds
   field is two digits denoting s mod 60 (so 00..59), the minutes field
   denotes s div 60, is at least two digits wide and has a leading zero only
   to reach that width (it is never wrapped into hours); 65 gives "01:05" and
   3661 gives "61:01". *)
C8_FormatTimeIsMinutesAndSeconds ==
    timeText # <<>> =>
        LET n == Len(timeText)
            mins == SubSeq(timeText, 1, n - 3)
            secs == SubSeq(timeText, n - 1, n)
        IN  /\ n >= 5
            /\ timeText[n - 2] = ":"
            /\ IsDigits(mins) /\ IsDigits(secs)
            /\ Denotes(secs) = totalSeconds % 60
            /\ Denotes(secs) \in 0..59
            /\ Denotes(mins) = totalSeconds \div 60
            /\ 60 * Denotes(mins) + Denotes(secs) = totalSeconds
            /\ (Len(mins) > 2 => Head(mins) # "0")
            /\ (totalSeconds = 65 => timeText = <<"0", "1", ":", "0", "5">>)
            /\ (totalSeconds = 3661 => timeText = <<"6", "1", ":", "0", "1">>)

\* more than an hour: the minutes field passed 59
C8_Witness ==
    totalSeconds = 3661 /\ timeText = <<"6", "1", ":", "0", "1">>

----------------------------------------------------------------------------
(* C11: the join of header and body *)

\* the call returned a transcript, not the diagnostic
ReturnedTranscript == pc = "done" /\ ~MissingData(meetingNote)

(* C11, as stated: with a non-empty header and a non-empty body the result is
   the header, one blank line, the body; with an empty header it is the
   trimmed body alone, with no leading blank line. *)
C11_HeaderBlankLineBody ==
    ReturnedTranscript =>
        /\ (header # <<>> /\ Trim(body) # <<>>)
              => result = header \o <<NL, NL>> \o Trim(body)
        /\ header = <<>>
              => /\ result = Trim(body)
                 /\ (result # <<>> => Head(result) \notin WhiteSpace)

(* C11, amended: with a non-empty header and a non-empty body the result is
   the header without its leading whitespace, one blank line ("\n\n"), the
   trimmed body, so it is header, blank line, body exactly when the header
   does not begin with whitespace; a header of whitespace only is dropped
   with its blank line; with an empty header the result is the trimmed body
   alone, with no leading blank line. *)
C11_TrimmedHeaderBlankLineBody ==
    ReturnedTranscript =>
        /\ (header # <<>> /\ Trim(body) # <<>>)
              => /\ result = IF Trim(header) = <<>> THEN Trim(body)
                             ELSE TrimStart(header) \o <<NL, NL>> \o Trim(body)
                 /\ Head(header) \notin WhiteSpace
                       => result = header \o <<NL, NL>> \o Trim(body)
        /\ header = <<>>
              => /\ result = Trim(body)
                 /\ (result # <<>> => Head(result) \notin WhiteSpace)

\* a title, then the blank line, then the first segment of the body
C11_Witness ==
    /\ ReturnedTranscript
    /\ meetingNote.title = <<"T">> /\ header = <<"T">>
    /\ Len(meetingNote.captions) > 0
    /\ StartsWith(result, <<"T", NL, NL, "0", "0", ":", "0", "0", NL>>)

----------------------------------------------------------------------------
(* C12: the date in the header *)

\* the title line as the header rules give it: "title | date", the title, or
\* nothing
TitleLine(note) ==
    IF ~Truthy(note.title) THEN <<>>
    ELSE IF Truthy(note.date) THEN note.title \o <<" ", "|", " ">> \o note.date
    ELSE note.title

\* the title block has run
PastTitle == pc \in {"url", "attendees", "loop", "return", "done"}
               /\ ~MissingData(meetingNote)

(* C12: the date is in the header only with a title, as "title | date" at the
   start of the header; a record with a date and no title gives a header, and
   a result, that do not contain the date. *)
C12_DateOnlyWithTitle ==
    /\ pc = "url" => header = TitleLine(meetingNote)
    /\ PastTitle =>
          IF Truthy(meetingNote.title)
          THEN /\ StartsWith(header, meetingNote.title)
               /\ Truthy(meetingNote.date) =>
                     StartsWith(header, meetingNote.title \o <<" ", "|", " ">>
                                          \o meetingNote.date)
          ELSE Truthy(meetingNote.date) =>
                  /\ ~Includes(header, meetingNote.date)
                  /\ pc = "done" => ~Includes(result, meetingNote.date)

\* a date and no title, with a header of URL and attendee that lacks the date
C12_Witness ==
    /\ ReturnedTranscript
    /\ meetingNote.title = Null /\ meetingNote.date = <<"D">>
    /\ header # <<>> /\ ~Includes(result, <<"D">>)
    /\ StartsWith(result, header)

----------------------------------------------------------------------------
(* C13: the location line *)

\* the URL block has run
PastUrl == pc \in {"attendees", "loop", "return", "done"}
             /\ ~MissingData(meetingNote)

\* what follows the title line (and its line feed) in header h
AfterTitleLine(h, note) ==
    LET lead == IF TitleLine(note) = <<>> THEN <<>> ELSE TitleLine(note) \o <<NL>>
    IN  SubSeq(h, Len(lead) + 1, Len(h))

(* C13: with a meeting URL the header has the URL cut at its first '?', so the
   location line has no '?'; the line is directly after the title line when
   there is a title and is the first line of the header otherwise. *)
C13_LocationLineWithoutQuery ==
    (pc = "attendees" /\ Truthy(meetingUrl)) =>
        LET loc == AfterTitleLine(header, meetingNote)
        IN  /\ header = (IF TitleLine(meetingNote) = <<>> THEN <<>>
                         ELSE TitleLine(meetingNote) \o <<NL>>) \o loc
            /\ \A k \in 1..Len(loc) : loc[k] # "?"
            /\ StartsWith(meetingUrl, loc)
            /\ Len(loc) < Len(meetingUrl) => meetingUrl[Len(loc) + 1] = "?"

\* a URL with two '?' under a title and date: the line is the part before the
\* first
C13_Witness ==
    /\ pc = "attendees"
    /\ meetingUrl = <<"u", "?", "q", "?", "r">>
    /\ meetingNote.title = <<"T">> /\ meetingNote.date = <<"D">>
    /\ header = <<"T", " ", "|", " ", "D", NL, "u">>

----------------------------------------------------------------------------
(* C14: the attendee block *)

\* the name of an attendee: displayName, or name when that is missing or empty
StatedAttendeeName(a) == IF Truthy(a.displayName) THEN a.displayName ELSE a.name

\* the attendee has a name or an e-mail address
HasLine(a) == Truthy(StatedAttendeeName(a)) \/ Truthy(a.email)

\* the line of such an attendee
StatedLine(a) ==
    CASE Truthy(StatedAttendeeName(a)) /\ Truthy(a.email)
             -> StatedAttendeeName(a) \o <<" ">> \o a.email
      [] Truthy(StatedAttendeeName(a)) -> StatedAttendeeName(a)
      [] OTHER -> a.email

\* the lines of the attendees that have one, in input order
StatedLines(note) ==
    IF "attendees" \in note.missing THEN <<>>
    ELSE LET kept == SelectSeq(note.attendees, HasLine)
         IN  [k \in 1..Len(kept) |-> StatedLine(kept[k])]

(* C14: the attendee block put after the header so far is one line for each
   attendee with a name or an e-mail address, "name email" with both and the
   one present otherwise, in input order, after a blank line when the header
   was not empty; with no such attendee the header is left as it was. *)
C14_OneLinePerAttendee ==
    [][pc = "attendees" =>
          LET lines == StatedLines(meetingNote)
              lead == IF header = <<>> THEN <<>> ELSE header \o <<NL, NL>>
          IN  IF lines = <<>> THEN header' = header
              ELSE /\ StartsWith(header', lead)
                   /\ Split(SubSeq(header', Len(lead) + 1, Len(header')), <<NL>>)
                         = lines]_vars

\* two attendees with a line and one without, under a title
C14_Witness ==
    /\ pc = "loop" /\ idx = 0
    /\ meetingNote.title = <<"T">> /\ meetingNote.date = Null /\ meetingUrl = Null
    /\ "attendees" \notin meetingNote.missing
    /\ meetingNote.attendees = <<Attendee(Amy, Bo, <<"a", "@", "x">>),
                                 Attendee(Null, Null, <<"b", "@", "x">>)>>
    /\ header = <<"T", NL, NL>> \o Amy \o <<" ", "a", "@", "x", NL, "b", "@", "x">>

----------------------------------------------------------------------------
(* C15: captions are taken in input order *)

\* the last caption of the run that caption i opens
RunEnd(caps, i) ==
    CHOOSE j \in i..Len(caps) :
        /\ \A m \in i..j : caps[m].speaker_id = caps[i].speaker_id
        /\ j = Len(caps) \/ caps[j + 1].speaker_id # caps[i].speaker_id

\* the texts of captions i..j in input order, one space between neighbours
RECURSIVE JoinSentences(_, _, _)
JoinSentences(caps, i, j) ==
    IF i = j THEN caps[i].sentence
    ELSE caps[i].sentence \o <<" ">> \o JoinSentences(caps, i + 1, j)

\* the text line of the run i..j: none when every text is empty
TextLine(caps, i, j) ==
    IF AllEmpty(caps, i, j) THEN <<>>
    ELSE Trim(JoinSentences(caps, i, j)) \o <<NL>>

\* the segments of the runs from caption i on, in input order
RECURSIVE StatedBody(_, _, _)
StatedBody(caps, meta, i) ==
    IF i > Len(caps) THEN <<>>
    ELSE LET j == RunEnd(caps, i)
         IN  (IF i > 1 THEN <<NL>> ELSE <<>>) \o HeaderOf(caps[i], meta)
               \o TextLine(caps, i, j) \o StatedBody(caps, meta, j + 1)

(* C15: captions are consumed in positional order: the body is the segments of
   the runs in input order, each with the texts of its captions in input
   order, whatever the times of the captions are; nothing is ordered by
   time. *)
C15_InputOrderKept ==
    (pc \in {"return", "done"} /\ ~MissingData(meetingNote)) =>
        body = StatedBody(meetingNote.captions, meetingNote.speakerMeta, 1)

\* times that go back, within a run and across runs, with the texts kept in
\* input order
C15_Witness ==
    /\ pc = "return"
    /\ Len(meetingNote.captions) = 3
    /\ meetingNote.captions[1] = Caption(0, <<"b">>, 5)
    /\ meetingNote.captions[2] = Caption(0, <<"a">>, 0)
    /\ meetingNote.captions[3].speaker_id = 1
    /\ meetingNote.captions[3].sentence = <<"b">>
    /\ meetingNote.captions[3].time = 0
    /\ \E p, q \in 1..Len(body) :
          /\ p < q
          /\ SubSeq(body, p, p + 3) = <<"b", " ", "a", NL>>
          /\ SubSeq(body, q, Len(body)) = <<NL, "b", NL>>

----------------------------------------------------------------------------
(* C16: formatTranscript has no effect but its result *)

\* this step ends a call
Returns == pc # "done" /\ pc' = "done"

(* C16: no step of formatTranscript changes its arguments (captions,
   speakerMeta, attendees, title, date, the URL), on the path that formats and
   on the missing-data path, or any state outside the call; a call on the same
   record returns the string the calls before returned. *)
C16_InputKeptAndResultRepeats ==
    [][/\ meetingNote' = meetingNote
       /\ meetingUrl' = meetingUrl
       /\ UNCHANGED <<timeVars, uiVars, urlVars, domVars>>
       /\ Returns => \A k \in 1..Len(returned) : returned[k] = result']_vars

\* the second call on a record with captions returned what the first did
C16_Witness ==
    /\ pc = "done"
    /\ Len(returned) = 1
    /\ Len(meetingNote.captions) > 0 /\ ~MissingData(meetingNote)
    /\ result = returned[1]
    /\ Len(result) > 5

----------------------------------------------------------------------------
(* C17: one notification for a request *)

\* the notifications that end a request: success, the two failures within a
\* 2xx response, HTTP error, network error, timeout
Outcomes ==
    {AlertCopied, AlertNoTranscriptData, AlertCouldNotParse, AlertNetworkError,
     AlertTimedOut} \cup {AlertHttpError(status) : status \in Statuses}

\* number of such notifications in a sequence of alerts
OutcomeCount(as) == Cardinality({k \in 1..Len(as) : as[k] \in Outcomes})

(* C17: a request leaves the set of pending requests in a step that makes
   exactly one notification, one of the terminal outcomes; an outcome is
   notified only in such a step; an answered request is never pending again:
   the outcomes notified are as many as the answered requests, never two for
   one request. *)
C17_OneOutcomePerRequest ==
    [][/\ (requests' = requests /\ inflight' # inflight) =>
             \E r \in inflight :
                /\ inflight' = inflight \ {r}
                /\ Len(alerts') = Len(alerts) + 1
                /\ SubSeq(alerts', 1, Len(alerts)) = alerts
                /\ alerts'[Len(alerts')] \in Outcomes
       /\ OutcomeCount(alerts') # OutcomeCount(alerts) =>
             Cardinality(inflight') = Cardinality(inflight) - 1
       /\ \A r \in inflight' : r \in inflight \/ r.n > requests
       /\ OutcomeCount(alerts') = requests' - Cardinality(inflight')]_vars

\* two requests, one answered with a transcript and one failed in the network,
\* two notifications
C17_Witness ==
    /\ requests = 2 /\ inflight = {}
    /\ OutcomeCount(alerts) = 2
    /\ \E j, k \in 1..Len(alerts) :
          alerts[j] = AlertCopied /\ alerts[k] = AlertNetworkError

----------------------------------------------------------------------------
(* C18: the timeout of the request *)

(* C18: the fetch supports a timeout: for every pending request the timeout
   outcome can be reported, so that a request the server never answers still
   ends. *)
C18_TimeoutCanFire ==
    \A r \in inflight : ENABLED Ontimeout(r)

----------------------------------------------------------------------------
(* C20: the identifier in the URL *)

\* the /view/ segment of the URL: up to the first '/', '?' or '#'
Segment(url) ==
    TakeUntil(SubSeq(url, Len(Origin) + Len(ViewSlash) + 1, Len(url)), IdStop)

\* what follows the last "::" of a segment that has one
AfterLastSeparator(seg) ==
    LET P == {p \in 1..(Len(seg) - 1) : SubSeq(seg, p, p + 1) = ColonColon}
        last == CHOOSE p \in P : \A q \in P : q <= p
    IN  SubSeq(seg, last + 2, Len(seg))

(* C20: for a /view/ segment with one or more "::" getMeetingNoteIdFromUrl
   returns what follows the last "::"; for a segment without "::" it returns
   the whole segment, up to the first '/', '?' or '#'. *)
C20_IdIsAfterLastSeparator ==
    (noteId # NotCalled /\ Segment(href) # <<>>) =>
        noteId = IF Includes(Segment(href), ColonColon)
                 THEN AfterLastSeparator(Segment(href))
                 ELSE Segment(href)

----------------------------------------------------------------------------
(* C19: one wait for the button container *)

\* the waits for the button container that are polling
ButtonWaits(p) == {t \in p.timers : t.selector = "icon"}

\* a page state without the identity of its timers
View(p) ==
    [copyButtons |-> p.copyButtons,
     waits |-> {[selector |-> t.selector, elapsedTime |-> t.elapsedTime] : t \in p.timers},
     waiting |-> \E t \in p.timers : t.id = p.currentWaitForButtonContainerTimer]

(* C19: in every state reached by initializations, navigations and timer
   ticks at most one wait for the button container is polling, and it is the
   one currentWaitForButtonContainerTimer names; initializeActiveViewFeatures
   stops the wait that was polling before it starts a new one; running it a
   second time leaves the page as the first run left it, up to the fresh
   timer. *)
C19_AtMostOneButtonWait ==
    LET once == initializeActiveViewFeatures(Page, href)
        twice == initializeActiveViewFeatures(once, href)
    IN  /\ Cardinality(ButtonWaits(Page)) <= 1
        /\ \A t \in ButtonWaits(Page) : t.id = currentWaitForButtonContainerTimer
        /\ ButtonWaits(Page) \cap ButtonWaits(once) = {}
        /\ Cardinality(ButtonWaits(once)) <= 1
        /\ View(twice) = View(once)

\* a wait that has polled, started by a re-initialization after the first wait
\* was cancelled
C19_Witness ==
    /\ currentWaitForButtonContainerTimer = 3
    /\ \E t \in timers : t.id = 3 /\ t.selector = "icon" /\ t.elapsedTime = 2 * Interval
    /\ \A t \in timers : t.id # 1
    /\ lastUrl # UrlOther

----------------------------------------------------------------------------
(* C23, C24: the lines of the body *)

\* the body is complete
BodyDone == pc \in {"return", "done"} /\ ~MissingData(meetingNote)

\* the lines of the body; the body ends with a line feed, so the last is empty
BodyLines == Split(body, <<NL>>)

\* a line of digits around one ':', as formatTime prints
IsStamp(line) ==
    \E p \in 1..Len(line) :
        /\ line[p] = ":"
        /\ \A q \in 1..Len(line) : q # p => line[q] \in DigitChars

\* the positions of the timestamp lines among the lines
StampPositions(lines) == {k \in 1..Len(lines) : IsStamp(lines[k])}

\* the j-th smallest member of a set of numbers
Nth(S, j) == CHOOSE k \in S : Cardinality({m \in S : m < k}) = j - 1

\* the captions that open a run
RunStarts(caps) == {i \in 1..Len(caps) : RunStart(caps, i)}

(* C23: the timestamp lines of the body are, in order, formatTime of the time
   of the first caption of each run; a time that only later captions of a run
   carry is nowhere in the output. *)
C23_StampIsTimeOfFirstCaption ==
    BodyDone =>
        LET caps == meetingNote.captions
            lines == BodyLines
            stamps == StampPositions(lines)
            starts == RunStarts(caps)
        IN  /\ Cardinality(stamps) = Cardinality(starts)
            /\ \A j \in 1..Cardinality(starts) :
                  lines[Nth(stamps, j)] = formatTime(caps[Nth(starts, j)].time)
            /\ \A i \in 1..Len(caps) :
                  (\A r \in starts : caps[r].time # caps[i].time) =>
                      /\ ~Includes(body, formatTime(caps[i].time))
                      /\ pc = "done" => ~Includes(result, formatTime(caps[i].time))

\* a run of two captions at times 0 and 5: 00:00 is printed, 00:05 is not
C23_Witness ==
    /\ pc = "done"
    /\ Len(meetingNote.captions) = 2
    /\ meetingNote.captions[1].speaker_id = meetingNote.captions[2].speaker_id
    /\ meetingNote.captions[1].time = 0 /\ meetingNote.captions[2].time = 5
    /\ StartsWith(result, <<"0", "0", ":", "0", "0", NL>>)
    /\ ~Includes(result, <<"0", "0", ":", "0", "5">>)

(* C24, as stated: every timestamp line after the first has exactly one empty
   line before it, and before that a line that is not empty. *)
C24_OneBlankLineBetweenSegments ==
    BodyDone =>
        LET lines == BodyLines
        IN  \A k \in StampPositions(lines) :
                k > 1 => /\ k >= 4
                         /\ lines[k - 1] = <<>>
                         /\ lines[k - 2] # <<>>

(* C24, amended: every timestamp line after the first has one empty line, the
   separator, before it; the line before the separator is the last line of
   the segment before, which is not empty unless that segment's accumulated
   text is only whitespace: such a text is flushed as an empty line, and then
   two empty lines stand between the name line and the next timestamp. *)
C24_OneSeparatorBetweenSegments ==
    BodyDone =>
        LET caps == meetingNote.captions
            lines == BodyLines
            stamps == StampPositions(lines)
            starts == RunStarts(caps)
        IN  \A j \in 2..Cardinality(stamps) :
                LET k == Nth(stamps, j)
                    first == Nth(starts, j - 1)
                    last == Nth(starts, j) - 1
                    blank == /\ ~AllEmpty(caps, first, last)
                             /\ Trim(JoinSentences(caps, first, last)) = <<>>
                IN  /\ k >= 4
                    /\ lines[k - 1] = <<>>
                    /\ lines[k - 2] = <<>> <=> blank
                    /\ blank => k >= 5 /\ lines[k - 3] # <<>>

\* two segments with the texts "a" and "b" and one empty line between them
C24_Witness ==
    /\ pc = "return"
    /\ Len(meetingNote.captions) = 2
    /\ meetingNote.captions[1].speaker_id # meetingNote.captions[2].speaker_id
    /\ body = HeaderOf(meetingNote.captions[1], meetingNote.speakerMeta)
                 \o <<"a", NL, NL>>
                 \o HeaderOf(meetingNote.captions[2], meetingNote.speakerMeta)
                 \o <<"b", NL>>

----------------------------------------------------------------------------
(* C27: when the clipboard is written *)

\* this step is onload of some request
SomeOnload ==
    \E r \in inflight, status \in Statuses, text \in ResponseTexts :
        Onload(r, status, text)

\* this step makes the success notification
NotifiesSuccess == alerts' = Append(alerts, AlertCopied)

(* C27: an onload step writes the clipboard, and then notifies success,
   exactly when the status is 200..299 and the parsed body has
   data.meetingNote; every other onload step (HTTP error, unparsable body, no
   meetingNote) and every step that is not onload (network error, click,
   navigation) leaves the clipboard as it was and notifies no success. *)
C27_ClipboardWrittenOnlyOnSuccess ==
    [][/\ \A r \in inflight, status \in Statuses, text \in ResponseTexts :
             Onload(r, status, text) =>
                IF status \in 200..299 /\ text.kind = "meetingNote"
                THEN /\ clipboard' = FormatTranscript(text.meetingNote, r.meetingUrl)
                     /\ NotifiesSuccess
                ELSE clipboard' = clipboard /\ ~NotifiesSuccess
       /\ ~SomeOnload => clipboard' = clipboard /\ ~NotifiesSuccess]_vars

\* a transcript copied, then an HTTP error that left it on the clipboard
C27_Witness ==
    /\ alerts = <<AlertCopied, AlertHttpError(500)>>
    /\ clipboard = FormatTranscript(TwoSpeakers, UrlPlain)
    /\ inflight = {}

----------------------------------------------------------------------------
(* C28: when a click sends a request *)

\* this step is a click on the button
Clicks == clicks' = clicks + 1

(* C28: a click sends a request exactly when both tokens are in localStorage
   and the URL gives a meeting id; a click that sends none leaves the pending
   requests as they were; no click changes the clipboard. *)
C28_RequestOnlyWithTokensAndId ==
    [][Clicks =>
         /\ clipboard' = clipboard
         /\ IF /\ authToken \notin {Null, <<>>}
               /\ refreshToken \notin {Null, <<>>}
               /\ getMeetingNoteIdFromUrl(href) \notin {Null, <<>>}
            THEN /\ requests' = requests + 1
                 /\ \E r \in inflight' :
                       r.n = requests' /\ inflight' = inflight \cup {r}
            ELSE /\ requests' = requests
                 /\ inflight' = inflight]_vars

\* with both tokens: a click off a meeting page that sent nothing, and a click
\* on a meeting page that sent a request
C28_Witness ==
    /\ clicks = 2 /\ requests = 1
    /\ authToken # Null /\ refreshToken # Null
    /\ alerts = <<AlertCouldNotCopy>>
    /\ Cardinality(inflight) = 1

----------------------------------------------------------------------------
(* C29: the id and the URL of one click stay together *)

\* the location line of the header for URL u: u up to its first '?'
LocationLine(u) == TakeUntil(u, {"?"})

\* the step answered request r
Answered(r) == r \in inflight /\ inflight' = inflight \ {r}

(* C29: every pending request holds the URL of its click and the meeting id of
   that URL, whatever the location is now; a response that is copied with a
   header carries the location line of the URL of its own request, and of no
   other page, also when the page has moved on and when another request is
   pending. *)
C29_IdAndUrlOfTheSameClick ==
    [][/\ \A r \in inflight' :
             /\ r.meetingUrl \in Hrefs
             /\ r.meetingNoteId = getMeetingNoteIdFromUrl(r.meetingUrl)
       /\ (NotifiesSuccess /\ clipboard' # Diagnostic) =>
             \E r \in inflight :
                /\ Answered(r)
                /\ Includes(clipboard', <<NL>> \o LocationLine(r.meetingUrl) \o <<NL>>)
                /\ \A u \in Hrefs :
                      LocationLine(u) # LocationLine(r.meetingUrl) =>
                          ~Includes(clipboard', LocationLine(u))]_vars

\* the transcript of the click on the first meeting is copied with its URL
\* after the page moved to the second meeting, whose request is still pending
C29_Witness ==
    /\ href = UrlLegacy
    /\ \E r \in inflight : r.meetingUrl = UrlLegacy /\ r.meetingNoteId = <<"m", "2">>
    /\ alerts # <<>> /\ alerts[Len(alerts)] = AlertCopied
    /\ clipboard = FormatTranscript(TwoSpeakers, UrlPlain)
    /\ Includes(clipboard, LocationLine(UrlPlain))

----------------------------------------------------------------------------
(* C21: the button appears *)

\* a meeting page: a /view/ URL that gives a meeting id
MeetingView(url) ==
    StartsWithView(url) /\ getMeetingNoteIdFromUrl(url) \notin {Null, <<>>}

\* the location is a meeting page and the page shows the native download
\* control
ControlPresent == MeetingView(href) /\ downloadIcon = "wrapped"

(* C21: on a meeting page, once the native download control is in the page,
   the Copy Transcript button eventually is there (or the page has left the
   meeting or dropped the control before), with no user action. *)
C21_ButtonEventuallyAppears ==
    ControlPresent ~> (copyButtons > 0 \/ ~ControlPresent)

----------------------------------------------------------------------------
(* C22: re-initialization on a change of the URL *)

(* C22: the last-seen URL changes only in a step of the observer, taken while
   the location differs from it, and in that step it becomes the location and
   initializeActiveViewFeatures runs once on the page; the wait variable and
   the timer ids change in no other step; and whenever the location differs
   from the last-seen URL, eventually it does not. *)
C22_ReinitializedOncePerUrlChange ==
    /\ [][/\ lastUrl' # lastUrl =>
                /\ observing /\ href # lastUrl
                /\ lastUrl' = href /\ href' = href
                /\ Page' = initializeActiveViewFeatures(Page, href)
          /\ lastUrl' = lastUrl =>
                /\ currentWaitForButtonContainerTimer' = currentWaitForButtonContainerTimer
                /\ nextTimerId' = nextTimerId]_vars
    /\ (href # lastUrl) ~> (href = lastUrl)

\* after a change of the URL to the second meeting the observer has started the
\* third timer of the page, which has not polled yet
C22_Witness ==
    /\ observing
    /\ href = UrlLegacy /\ lastUrl = UrlLegacy
    /\ currentWaitForButtonContainerTimer = 3
    /\ timers = {[id |-> 3, selector |-> "icon", elapsedTime |-> 0]}
    /\ copyButtons = 0

----------------------------------------------------------------------------
(* C25: one button *)

(* C25: after any sequence of initializations, URL changes, DOM mutations and
   timer ticks the page holds at most one Copy Transcript button. *)
C25_AtMostOneButton == copyButtons <= 1

\* initializeActiveViewFeatures has run on a meeting page that had the button
\* already: the wait variable is reset, no wait is started, the button stays
C25_Witness ==
    /\ copyButtons = 1
    /\ currentWaitForButtonContainerTimer = 0
    /\ MeetingView(lastUrl)
    /\ ButtonWaits(Page) = {}

----------------------------------------------------------------------------
(* C26: nothing on other pages *)

(* C26: while the last initialization was for a URL that is not a meeting
   page (not under /view/, or with no id), the page has no button, no wait for
   the button is active and the wait variable is reset; and a button is
   inserted only in a step taken while the last initialization was for a
   meeting page. *)
C26_NothingOutsideMeetingView ==
    /\ [](~MeetingView(lastUrl) =>
            /\ copyButtons = 0
            /\ ButtonWaits(Page) = {}
            /\ currentWaitForButtonContainerTimer = 0)
    /\ [][copyButtons' > copyButtons => MeetingView(lastUrl) /\ lastUrl' = lastUrl]_vars

\* the page was initialized as a meeting page (two timers started), then for
\* another URL: the control is in the page, no wait is left to find it
C26_Witness ==
    /\ ~MeetingView(lastUrl)
    /\ href = lastUrl
    /\ observing
    /\ nextTimerId = 3
    /\ downloadIcon = "wrapped"
    /\ timers = {}
    /\ copyButtons = 0

----------------------------------------------------------------------------
(* C30: every poll ends *)

\* querySelector(selector) finds an element
Found(t) == t.selector = "body" \/ downloadIcon # "none"

TimerIds(ts) == {t.id : t \in ts}

\* the callback given to waitForElement has acted in the step
CallbackActed == copyButtons' > copyButtons \/ observing' # observing

(* C30: a timer has polled fewer than Timeout / Interval = 100 times without
   finding its element; from one step to the next a timer is unchanged, has
   polled once more without finding, is gone, or is new with a fresh id, so a
   timer that is gone never comes back; a poll that finds the element clears
   the timer in the same step, a poll that does not find it runs no callback
   and clears the timer at the 100th miss; a callback acts only in the step
   that removes its timer, the element being found; and every timer
   eventually is gone. *)
C30_EveryWaitTerminates ==
    /\ [](\A t \in timers :
            /\ t.elapsedTime < Timeout
            /\ t.elapsedTime % Interval = 0
            /\ t.id < nextTimerId
            /\ \A u \in timers : u.id = t.id => u = t)
    /\ [][/\ nextTimerId' >= nextTimerId
          /\ \A t \in timers' :
                \/ t \in timers
                \/ /\ [t EXCEPT !.elapsedTime = @ - Interval] \in timers
                   /\ ~Found(t)
                \/ /\ t.id = nextTimerId /\ t.elapsedTime = 0
                   /\ nextTimerId' = nextTimerId + 1
          /\ \A t \in timers :
                Tick(t) =>
                    IF Found(t)
                    THEN t.id \notin TimerIds(timers')
                    ELSE /\ ~CallbackActed
                         /\ (t.id \notin TimerIds(timers'))
                                <=> (t.elapsedTime = Timeout - Interval)
          /\ CallbackActed =>
                \E t \in timers : Found(t) /\ timers' = timers \ {t}]_vars
    /\ \A id \in 1..(MaxTimers + 1) :
          (id \in TimerIds(timers)) ~> (id \notin TimerIds(timers))

\* the wait for the icon is at its hundredth poll and the icon is not there
C30_Witness ==
    \E t \in timers :
        /\ t.selector = "icon"
        /\ t.elapsedTime = Timeout - Interval
        /\ ~Found(t)

----------------------------------------------------------------------------
(* C31: a mutation on an unchanged URL *)

(* C31: a step of the observer callback taken while the location equals the
   last-seen URL changes nothing: the last-seen URL stays, no timer is
   started (no initialization runs), the wait variable and the timers are as
   before (the pending wait is neither cancelled nor restarted), the number
   of buttons is as before, and so is every other variable; in such a state
   the callback has no step that changes the state. *)
C31_MutationOnSameUrlChangesNothing ==
    /\ [][(ObserverCallback /\ href = lastUrl) =>
              /\ lastUrl' = lastUrl
              /\ nextTimerId' = nextTimerId
              /\ currentWaitForButtonContainerTimer' = currentWaitForButtonContainerTimer
              /\ timers' = timers
              /\ copyButtons' = copyButtons
              /\ UNCHANGED vars]_vars
    /\ [](href = lastUrl => ~ENABLED <<ObserverCallback>>_vars)

\* the observer is attached, the URL is the one last seen, the wait for the
\* icon has polled and is pending: a mutation of the page runs the callback
C31_Witness ==
    /\ observing
    /\ href = lastUrl
    /\ ENABLED ObserverCallback
    /\ copyButtons = 0
    /\ \E t \in ButtonWaits(Page) :
          /\ t.id = currentWaitForButtonContainerTimer
          /\ t.elapsedTime = 3 * Interval

====
